---- MODULE Spec2Model ----
(***************************************************************************)
(* A model of RAGTools (src/ragsst.py): the bounded conversation memory    *)
(* of the chat path, ingestion of a document directory into a vector-store *)
(* collection, similarity-thresholded retrieval, the retrieval-augmented   *)
(* query paths and the start-up policy of the constructor.                 *)
(*                                                                         *)
(* Python values are modelled as follows.  A str is a sequence of pieces   *)
(* whose concatenation is its value: single characters where the program   *)
(* slices the string (file names), whole literals elsewhere; '' is << >>.  *)
(* A float distance or similarity is an integer number of thousandths.     *)
(* None, dicts and exceptions are tagged records.                          *)
(***************************************************************************)
EXTENDS Integers, Sequences, FiniteSets, TLC

VARIABLES
    phase,         \* "new" before RAGTools() is constructed, then "ready" or "failed"
    conversation,  \* self.conversation, the deque(maxlen=10)
    appended,      \* history: every entry ever appended to self.conversation
    store,         \* the vector store: collection name -> [exists, records]
    collection,    \* self.collection: the name of the collection the handle is on
    vdb,           \* the directory VECTOR_DB_PATH: "absent", "empty" or "nonempty"
    init_data,     \* the data_path argument of the constructor
    completed,     \* history: the make_collection calls with skipping that completed
    op,            \* the last operation called
    args,          \* its arguments
    result,        \* how it ended: the value returned or the exception raised
    sent,          \* the HTTP exchanges of the last operation with the LLM service
    adds,          \* the collection.add calls of the last operation
    calls,         \* the methods the last operation went through
    queried,       \* the QueryResult the store gave the last operation
    before         \* the state the last operation started from

vars == <<phase, conversation, appended, store, collection, vdb, init_data,
          completed, op, args, result, sent, adds, calls, queried, before>>

----------------------------------------------------------------------------
(* Bounds of the model *)

\* The chat path is explored until this many entries have been appended.
MaxAppended == 12

----------------------------------------------------------------------------
(* Python values *)

\* A dict with the keys `keys` among role and content.
PyDict(keys, role, content) ==
    [py |-> "dict", keys |-> keys, role |-> role, content |-> content]

\* A str value held where a dict is expected.
PyStr(s) == [py |-> "str", keys |-> {}, role |-> "", content |-> s]

\* dict.get(key, default) on a value that is a dict.
DictGet(d, key, default) ==
    IF key \in d.keys THEN (IF key = "role" THEN d.role ELSE d.content) ELSE default

\* x.get exists on a dict; on a str it raises AttributeError.
HasGet(x) == x.py = "dict"

Returned(v) == [raised |-> FALSE, exc |-> "", value |-> v, rows |-> <<>>]
ReturnedRows(v, rows) == [raised |-> FALSE, exc |-> "", value |-> v, rows |-> rows]
Raised(e) == [raised |-> TRUE, exc |-> e, value |-> <<>>, rows |-> <<>>]

----------------------------------------------------------------------------
(* ConversationWindow *)

max_conversation_length == 10

\* A deque that, when full, refuses the new entry instead of evicting the oldest.
DequeAppendKeepOldest(dq, x) ==
    IF Len(dq) < max_conversation_length THEN Append(dq, x) ELSE dq

\* deque(maxlen=n).append(x): append on the right, discard from the left when full.
DequeAppend(dq, x) ==
    IF Len(dq) < max_conversation_length
    THEN Append(dq, x)
    ELSE Append(Tail(dq), x)

----------------------------------------------------------------------------
(* LLMClient: the HTTP exchange with the LLM service *)

model == <<"llama3.1">>
llm_base_url == <<"http://localhost:11434/api">>

Reply(kind, keys, response, message) ==
    [kind |-> kind, keys |-> keys, response |-> response, message |-> message]

\* What requests.post and json.loads can produce for POST {base}/generate:
\*   ConnectionError : requests.post raises
\*   JSONDecodeError : r.text is no JSON document
\*   json            : a JSON object, with or without the field `response`
GenerateReplies ==
    { Reply("ConnectionError", {}, <<>>, PyStr(<<>>)),
      Reply("JSONDecodeError", {}, <<>>, PyStr(<<>>)),
      Reply("json", {"response"}, <<"42">>, PyStr(<<>>)),
      Reply("json", {}, <<>>, PyStr(<<>>)) }

\* The same for POST {base}/chat: a JSON object with a `message` that has a
\* content, with a `message` that has none, or without `message`.
ChatReplies ==
    { Reply("ConnectionError", {}, <<>>, PyStr(<<>>)),
      Reply("JSONDecodeError", {}, <<>>, PyStr(<<>>)),
      Reply("json", {"message"}, <<>>,
            PyDict({"role", "content"}, "assistant", <<"Yes!">>)),
      Reply("json", {"message"}, <<>>, PyDict({"role"}, "assistant", <<>>)),
      Reply("json", {}, <<>>, PyStr(<<>>)) }

GenerateRequest(prompt) ==
    [url |-> llm_base_url \o <<"/generate">>, model |-> model,
     prompt |-> prompt, messages |-> <<>>, stream |-> FALSE]

ChatRequest(messages) ==
    [url |-> llm_base_url \o <<"/chat">>, model |-> model,
     prompt |-> <<>>, messages |-> messages, stream |-> FALSE]

Exchange(request, reply) == [request |-> request, reply |-> reply]

\* What an operation did: the window it leaves, the entries it appended to it,
\* its HTTP exchanges, the methods it went through, and how it ended.
Effect(conv, new, exchanges, methods, res) ==
    [conversation |-> conv, new |-> new, sent |-> exchanges,
     calls |-> methods, result |-> res]

\* llm_generate(prompt), the service answering `reply`.
llm_generate(conv, prompt, reply) ==
    Effect(conv, <<>>, <<Exchange(GenerateRequest(prompt), reply)>>,
           <<"llm_generate">>,
           IF reply.kind # "json"
           THEN Raised(reply.kind)
           ELSE Returned(IF "response" \in reply.keys THEN reply.response ELSE <<>>))

\* response_dic.get('message', '')
ChatResponse(reply) ==
    IF "message" \in reply.keys THEN reply.message ELSE PyStr(<<>>)

\* llm_chat(user_message), the service answering `reply`.
llm_chat(conv, user_message, reply) ==
    LET turn == PyDict({"role", "content"}, "user", user_message)
        conv1 == DequeAppend(conv, turn)
        response == ChatResponse(reply)
        conv2 == DequeAppend(conv1, response)
        exchange == <<Exchange(ChatRequest(conv1), reply)>>
    IN  IF reply.kind # "json"
        THEN Effect(conv1, <<turn>>, exchange, <<"llm_chat">>, Raised(reply.kind))
        ELSE Effect(conv2, <<turn, response>>, exchange, <<"llm_chat">>,
                    IF HasGet(response)
                    THEN Returned(DictGet(response, "content", <<>>))
                    ELSE Raised("AttributeError"))

----------------------------------------------------------------------------
(* The operations as actions *)

Snapshot ==
    [conversation |-> conversation, store |-> store, vdb |-> vdb,
     collection |-> collection, completed |-> completed]

\* An operation that leaves the vector store alone.
Apply(name, arguments, eff, qr) ==
    /\ op' = name
    /\ args' = arguments
    /\ conversation' = eff.conversation
    /\ appended' = appended \o eff.new
    /\ sent' = eff.sent
    /\ calls' = eff.calls
    /\ result' = eff.result
    /\ queried' = qr
    /\ adds' = <<>>
    /\ before' = Snapshot
    /\ UNCHANGED <<phase, store, collection, vdb, init_data, completed>>

NoQuery == [asked |-> FALSE, rows |-> <<>>]

\* What the user types: a message, a query, a prompt.
UserMessages == { <<"hello">> }

\* chat(user_msg, history, top_k, top_p, temp), which is llm_chat(user_msg, ...).
chat(messages, limit) ==
    /\ phase = "ready"
    /\ Len(appended) + 2 <= limit
    /\ \E user_msg \in messages, reply \in ChatReplies :
          Apply("chat", [user_msg |-> user_msg],
                llm_chat(conversation, user_msg, reply), NoQuery)

----------------------------------------------------------------------------
(* The documents on disk *)

DATA_PATH == "data"
COLLECTION_NAME == "my_docs"

File(name, chunks) == [name |-> name, chunks |-> chunks]

\* The directories a data_path can name, and what os.listdir finds in each:
\* the file's name and the chunks its text splits into.
DataPaths == {"data", "mixed", "other", "empty", "nodir"}

DirEntries(path) ==
    CASE path = "data" ->
           << File(<<"d", "o", "c", ".", "t", "x", "t">>,
                   << <<"alpha ">>, <<"beta ">>, <<"gamma">> >>),
              File(<<"n", ".", "m", "d">>, << <<"notes">> >>),
              File(<<"e", ".", "t", "x", "t">>, << >>) >>
      [] path = "mixed" ->
           << File(<<"a", ".", "p", "d", "f">>, << <<"pdf one">> >>),
              File(<<"a", ".", "t", "x", "t">>, << <<"txt one">>, <<"txt two">> >>) >>
      [] path = "other" ->
           << File(<<"a", ".", "t", "x", "t">>, << <<"txt one">>, <<"txt two">> >>),
              File(<<"b", "b", ".", "p", "d", "f">>, << <<"bb">> >>) >>
      [] OTHER -> << >>

\* os.path.exists(path)
PathExists(path) == path # "nodir"

\* The last four characters of a file name.
Extension(name) ==
    IF Len(name) < 4 THEN name ELSE SubSeq(name, Len(name) - 3, Len(name))

Supported(entry) ==
    Extension(entry.name) \in { <<".", "t", "x", "t">>, <<".", "p", "d", "f">> }

\* list_files(data_path, extensions=('.txt', '.pdf'))
list_files(path) == SelectSeq(DirEntries(path), Supported)

\* split_text(read_file(f))
FileChunks(entry) == entry.chunks

----------------------------------------------------------------------------
(* Vector store and ingestion *)

\* The collection names in use: the UI offers COLLECTION_NAME.
CollectionNames == {COLLECTION_NAME}

NoCollection == [exists |-> FALSE, records |-> << >>]
EmptyStore == [n \in CollectionNames |-> NoCollection]

Digits == <<"0", "1", "2", "3", "4", "5", "6", "7", "8", "9">>

\* str(n) of an int n >= 0
RECURSIVE IntStr(_)
IntStr(n) ==
    IF n < 10 THEN <<Digits[n + 1]>>
    ELSE IntStr(n \div 10) \o <<Digits[(n % 10) + 1]>>

\* f"id{file_name[:-4]}.{i}"
ChunkId(file_name, i) ==
    <<"id">> \o SubSeq(file_name, 1, Len(file_name) - 4) \o <<".">> \o IntStr(i)

Record(document, id, source, part) ==
    [id |-> id, document |-> document,
     metadata |-> [source |-> source, part |-> part]]

Ids(records) == { records[i].id : i \in 1..Len(records) }

\* collection.add(documents, ids, metadatas) of one record: the store keeps its
\* ids unique, and an add under an id it already holds stores nothing.
CollectionAdd(records, rec) ==
    IF rec.id \in Ids(records) THEN records ELSE Append(records, rec)

\* {m.get('source') for m in self.collection.get().get('metadatas')}
Sources(records) == { records[i].metadata.source : i \in 1..Len(records) }

\* A skip test that never skips.
SkipFileNever(skip_included_files, file_name, sources) == FALSE

\* skip_included_files and file_name in sources
SkipFile(skip_included_files, file_name, sources) ==
    skip_included_files /\ file_name \in sources

\* The add calls for the chunks i.. of one file, in order.
RECURSIVE FileAdds(_, _, _)
FileAdds(file_name, chunks, i) ==
    IF i > Len(chunks) THEN << >>
    ELSE <<Record(chunks[i], ChunkId(file_name, i), file_name, i)>>
         \o FileAdds(file_name, chunks, i + 1)

\* The loop over the files, from file k on: every add call it makes.
RECURSIVE IngestAdds(_, _, _, _)
IngestAdds(files, k, skip_included_files, sources) ==
    IF k > Len(files) THEN << >>
    ELSE (IF SkipFile(skip_included_files, files[k].name, sources)
          THEN << >>
          ELSE FileAdds(files[k].name, FileChunks(files[k]), 1))
         \o IngestAdds(files, k + 1, skip_included_files, sources)

\* The records of the collection after the add calls from call j on.
RECURSIVE AddAll(_, _, _)
AddAll(records, addcalls, j) ==
    IF j > Len(addcalls) THEN records
    ELSE AddAll(CollectionAdd(records, addcalls[j]), addcalls, j + 1)

\* make_collection(data_path, collection_name, skip_included_files) on the store
\* st: the store afterwards and the add calls made.
make_collection(st, data_path, collection_name, skip_included_files) ==
    LET records == st[collection_name].records        \* get_or_create_collection
        sources == Sources(records)
        addcalls == IngestAdds(list_files(data_path), 1, skip_included_files, sources)
    IN  [store |-> [st EXCEPT ![collection_name] =
                       [exists |-> TRUE, records |-> AddAll(records, addcalls, 1)]],
         adds |-> addcalls]

\* The Make Db button: make_collection(data_path, collection_name), and the
\* same call with skipping switched off.
MakeDb ==
    /\ phase = "ready"
    /\ \E data_path \in DataPaths \ {"nodir"}, name \in CollectionNames,
          skip \in BOOLEAN :
          LET r == make_collection(store, data_path, name, skip)
          IN  /\ store' = r.store
              /\ adds' = r.adds
              /\ collection' = name
              /\ completed' = IF skip THEN completed \cup {<<data_path, name>>}
                              ELSE completed
              /\ op' = "make_collection"
              /\ args' = [data_path |-> data_path, collection_name |-> name,
                          skip_included_files |-> skip]
    /\ result' = Returned(<<>>)
    /\ calls' = <<"make_collection">>
    /\ sent' = <<>>
    /\ queried' = NoQuery
    /\ vdb' = "nonempty"
    /\ before' = Snapshot
    /\ UNCHANGED <<phase, conversation, appended, init_data>>

----------------------------------------------------------------------------
(* Construction: RAGTools.__init__ *)

\* A start-up test that looks at the documents only.
check_initdb_conditions_data_only(data_path, vdb_path) ==
    /\ PathExists(data_path)
    /\ DirEntries(data_path) # << >>

\* check_initdb_conditions(), VECTOR_DB_PATH being in the state vdb_path
check_initdb_conditions(data_path, vdb_path) ==
    /\ PathExists(data_path)
    /\ DirEntries(data_path) # << >>
    /\ (vdb_path = "absent" \/ vdb_path = "empty")

\* RAGTools(data_path=init_data).  chromadb.PersistentClient(path=VECTOR_DB_PATH)
\* is built before the test runs, and may by then have created the directory
\* and its database file (`eager`) or not.
Construct ==
    /\ phase = "new"
    /\ \E eager \in BOOLEAN :
          LET seen == IF eager THEN "nonempty" ELSE vdb
              r == make_collection(store, init_data, COLLECTION_NAME, TRUE)
          IN  IF check_initdb_conditions(init_data, seen)
              THEN /\ store' = r.store
                   /\ adds' = r.adds
                   /\ completed' = completed \cup {<<init_data, COLLECTION_NAME>>}
                   /\ calls' = <<"check_initdb_conditions", "make_collection">>
                   /\ result' = Returned(<<>>)
                   /\ phase' = "ready"
              ELSE /\ store' = store
                   /\ adds' = << >>
                   /\ completed' = completed
                   /\ calls' = <<"check_initdb_conditions", "get_collection">>
                   /\ result' = IF store[COLLECTION_NAME].exists
                                THEN Returned(<<>>) ELSE Raised("ValueError")
                   /\ phase' = IF store[COLLECTION_NAME].exists
                               THEN "ready" ELSE "failed"
    /\ collection' = COLLECTION_NAME
    /\ vdb' = "nonempty"
    /\ conversation' = << >>
    /\ op' = "RAGTools"
    /\ args' = [data_path |-> init_data]
    /\ sent' = << >>
    /\ queried' = NoQuery
    /\ before' = Snapshot
    /\ UNCHANGED <<appended, init_data>>

\* The store a previous run left behind after ingesting DATA_PATH.
IngestedStore == make_collection(EmptyStore, DATA_PATH, COLLECTION_NAME, TRUE).store

NoCall ==
    /\ op = "none"
    /\ args = << >>
    /\ result = Returned(<<>>)
    /\ sent = << >>
    /\ adds = << >>
    /\ calls = << >>
    /\ queried = NoQuery

\* Before construction: any data_path, and a vector-store directory that is
\* missing, empty, or left by an earlier run with or without the collection.
InitIngest ==
    /\ phase = "new"
    /\ conversation = << >>
    /\ appended = << >>
    /\ init_data \in DataPaths
    /\ vdb \in {"absent", "empty", "nonempty"}
    /\ store \in IF vdb = "nonempty" THEN {EmptyStore, IngestedStore} ELSE {EmptyStore}
    /\ collection = "none"
    /\ completed = {}
    /\ NoCall
    /\ before = Snapshot

NextIngest == Construct \/ MakeDb

SpecIngest == InitIngest /\ [][NextIngest]_vars

----------------------------------------------------------------------------
(* The chat path alone, from a constructed RAGTools *)

InitReady ==
    /\ phase = "ready"
    /\ conversation = << >>
    /\ appended = << >>
    /\ init_data = DATA_PATH
    /\ vdb = "nonempty"
    /\ collection = COLLECTION_NAME
    /\ completed = {}
    /\ NoCall

InitChat ==
    /\ InitReady
    /\ store = IngestedStore
    /\ before = Snapshot

NextChat == chat(UserMessages, MaxAppended)

SpecChat == InitChat /\ [][NextChat]_vars

----------------------------------------------------------------------------
(* RetrievalEngine *)

\* The largest n_results asked of the store.
MaxNResults == 2

\* The distances the store reports, in thousandths (cosine distance, 0 to 2).
Distances == {596, 605, 1250}

\* sim_th: None, or a float in thousandths.
None == [given |-> FALSE, value |-> 0]
Float(x) == [given |-> TRUE, value |-> x]
SimThresholds == {None, Float(400), Float(401), Float(900)}

Row(rec, distance) ==
    [id |-> rec.id, document |-> rec.document, distance |-> distance,
     metadata |-> rec.metadata]

\* The ways to go on with m more rows, each a record not yet used and at least
\* as far as the row before.
RECURSIVE RowsFrom(_, _, _, _)
RowsFrom(records, used, floor, m) ==
    IF m = 0 THEN { << >> }
    ELSE UNION { { <<Row(records[c[1]], c[2])>> \o rest :
                     rest \in RowsFrom(records, used \cup {c[1]}, c[2], m - 1) } :
                 c \in ((1..Len(records)) \ used) \X {d \in Distances : d >= floor} }

\* collection.query(query_texts, n_results): the rows of min(n_results, count)
\* distinct records, nearest first; which records and how far is the embedding's.
QueryResults(records, n_results) ==
    RowsFrom(records, {}, 0,
             IF n_results < Len(records) THEN n_results ELSE Len(records))

\* round(x, 2) of x thousandths: the nearest hundredth; at a tie the binary
\* value of the float decides, so either neighbour can come out.
Round2(x) ==
    LET lo == (x \div 10) * 10
        r == x - lo
    IN  IF r < 5 THEN {lo} ELSE IF r > 5 THEN {lo + 10} ELSE {lo, lo + 10}

\* [1 - d for d in distances]
Similarity(distance) == 1000 - distance

\* The rounded similarities the rows i.. of a query result can get: each is
\* round(1 - distance, 2).
RECURSIVE RoundedSims(_, _)
RoundedSims(qr, i) ==
    IF i > Len(qr) THEN { << >> }
    ELSE { <<sim>> \o rest : sim \in Round2(Similarity(qr[i].distance)),
                             rest \in RoundedSims(qr, i + 1) }

\* str(x) of a float x that is a whole number of hundredths
FloatStr(x) ==
    LET a == IF x < 0 THEN -x ELSE x
        h == (a % 1000) \div 10
    IN  (IF x < 0 THEN <<"-">> ELSE << >>)
        \o IntStr(a \div 1000) \o <<".">>
        \o (IF h % 10 = 0 THEN IntStr(h \div 10)
            ELSE <<Digits[(h \div 10) + 1], Digits[(h % 10) + 1]>>)

\* str(metadata)
MetaStr(m) ==
    <<"{'source': '">> \o m.source \o <<"', 'part': ">> \o IntStr(m.part) \o <<"}">>

\* sep.join(parts[i..])
RECURSIVE Join(_, _, _)
Join(sep, parts, i) ==
    IF i > Len(parts) THEN << >>
    ELSE IF i = Len(parts) THEN parts[i]
    ELSE parts[i] \o sep \o Join(sep, parts, i + 1)

Passage(pos, row, sim) ==
    [pos |-> pos, document |-> row.document, distance |-> row.distance,
     similarity |-> sim, metadata |-> row.metadata]

\* sim_th is not None and sim < sim_th
BelowThreshold(sim, sim_th) == sim_th.given /\ sim < sim_th.value

\* The loop of retrieve_content_w_meta_info from row i on: docs_selection.
RECURSIVE DocsSelection(_, _, _, _)
DocsSelection(qr, sims, sim_th, i) ==
    IF i > Len(qr) THEN << >>
    ELSE (IF BelowThreshold(sims[i], sim_th) THEN << >>
          ELSE <<Passage(i, qr[i], sims[i])>>)
         \o DocsSelection(qr, sims, sim_th, i + 1)

\* '\n'.join([doc, f"Relevance: {sim}", metadata])
Block(p) ==
    p.document \o <<"\n">> \o <<"Relevance: ">> \o FloatStr(p.similarity)
    \o <<"\n">> \o MetaStr(p.metadata)

\* retrieve_content_w_meta_info(query, nresults, sim_th), the store answering qr
\* and the rounding giving sims.
retrieve_content_w_meta_info(conv, qr, sims, sim_th) ==
    LET docs_selection == DocsSelection(qr, sims, sim_th, 1)
        blocks == [i \in 1..Len(docs_selection) |-> Block(docs_selection[i])]
    IN  Effect(conv, << >>, << >>, <<"retrieve_content_w_meta_info">>,
               ReturnedRows(Join(<<"\n-----------------\n\n">>, blocks, 1),
                            docs_selection))

\* A filter that keeps the rows strictly below the threshold.
KeepsWrongSide(s, sim_th) == sim_th.given => s < sim_th.value

\* s >= sim_th, or no threshold given
Keeps(s, sim_th) == sim_th.given => s >= sim_th.value

\* [d for d, s in zip(docs, similarities) if s >= sim_th] from row i on
\* (all of docs when sim_th is None).
RECURSIVE RelevantDocs(_, _, _)
RelevantDocs(qr, sim_th, i) ==
    IF i > Len(qr) THEN << >>
    ELSE (IF Keeps(Similarity(qr[i].distance), sim_th)
          THEN <<Passage(i, qr[i], Similarity(qr[i].distance))>>
          ELSE << >>)
         \o RelevantDocs(qr, sim_th, i + 1)

\* get_relevant_text(query, nresults, sim_th), the store answering qr.
get_relevant_text(conv, qr, sim_th) ==
    LET relevant_docs == RelevantDocs(qr, sim_th, 1)
        docs == [i \in 1..Len(relevant_docs) |-> relevant_docs[i].document]
    IN  Effect(conv, << >>, << >>, <<"get_relevant_text">>,
               ReturnedRows(Join(<< >>, docs, 1), relevant_docs))

----------------------------------------------------------------------------
(* Retrieval-augmented generation *)

NotFoundQuery == <<"Relevant passage not found. Try lowering the relevance threshold.">>
NotFoundChat == <<"Relevant passage not found">>

get_context_prompt(question, context) ==
    <<"Use the following context to answer the question at the end. ",
      "Keep the answer as concise as possible.\n", "Context:\n">>
    \o context \o <<"\nQuestion:\n">> \o question

\* The steps rag_query and rag_chat share: retrieve, give up with `not_found`
\* when nothing relevant came back, else prompt the LLM.
Rag(name, conv, user_msg, sim_th, qr, reply, not_found) ==
    LET relevant_text == get_relevant_text(conv, qr, sim_th).result.value
        g == llm_generate(conv, get_context_prompt(user_msg, relevant_text), reply)
    IN  IF relevant_text = << >>
        THEN Effect(conv, << >>, << >>, <<name, "get_relevant_text">>,
                    Returned(not_found))
        ELSE Effect(g.conversation, g.new, g.sent,
                    <<name, "get_relevant_text", "get_context_prompt">> \o g.calls,
                    g.result)

\* A rag_query that prompts the LLM whatever the retrieval gave.
rag_query_always_asks(conv, user_msg, sim_th, qr, reply) ==
    LET relevant_text == get_relevant_text(conv, qr, sim_th).result.value
        g == llm_generate(conv, get_context_prompt(user_msg, relevant_text), reply)
    IN  Effect(g.conversation, g.new, g.sent,
               <<"rag_query", "get_relevant_text", "get_context_prompt">> \o g.calls,
               g.result)

\* rag_query(user_msg, sim_th, top_k, top_p, temp)
rag_query(conv, user_msg, sim_th, qr, reply) ==
    Rag("rag_query", conv, user_msg, sim_th, qr, reply, NotFoundQuery)

\* A rag_chat that answers through the chat operation and its memory.
rag_chat_with_memory(conv, user_msg, qr, reply) ==
    LET relevant_text == get_relevant_text(conv, qr, Float(400)).result.value
        c == llm_chat(conv, get_context_prompt(user_msg, relevant_text),
                      Reply(reply.kind, {"message"}, << >>,
                            PyDict({"role", "content"}, "assistant", reply.response)))
    IN  IF relevant_text = << >>
        THEN Effect(conv, << >>, << >>, <<"rag_chat", "get_relevant_text">>,
                    Returned(NotFoundChat))
        ELSE Effect(c.conversation, c.new, c.sent,
                    <<"rag_chat", "get_relevant_text", "get_context_prompt">> \o c.calls,
                    c.result)

\* rag_chat(user_msg, history, top_k, top_p, temp): the threshold is 0.4
rag_chat(conv, user_msg, qr, reply) ==
    Rag("rag_chat", conv, user_msg, Float(400), qr, reply, NotFoundChat)

----------------------------------------------------------------------------
(* The retrieval operations as actions *)

\* The QueryResult of the collection the handle is on.
Asked(qr) == [asked |-> TRUE, rows |-> qr]
HandleRecords == store[collection].records

RetrieveContentWMetaInfo(ns, thresholds) ==
    /\ phase = "ready"
    /\ \E query \in UserMessages, nresults \in ns, sim_th \in thresholds :
         \E qr \in QueryResults(HandleRecords, nresults) :
           \E sims \in RoundedSims(qr, 1) :
             Apply("retrieve_content_w_meta_info",
                   [query |-> query, nresults |-> nresults, sim_th |-> sim_th],
                   retrieve_content_w_meta_info(conversation, qr, sims, sim_th),
                   Asked(qr))

GetRelevantText(ns, thresholds) ==
    /\ phase = "ready"
    /\ \E query \in UserMessages, nresults \in ns, sim_th \in thresholds :
         \E qr \in QueryResults(HandleRecords, nresults) :
             Apply("get_relevant_text",
                   [query |-> query, nresults |-> nresults, sim_th |-> sim_th],
                   get_relevant_text(conversation, qr, sim_th), Asked(qr))

\* get_relevant_text is called with its default nresults=2.
RagQuery ==
    /\ phase = "ready"
    /\ \E user_msg \in UserMessages, sim_th \in SimThresholds \ {None},
          reply \in GenerateReplies :
         \E qr \in QueryResults(HandleRecords, 2) :
             Apply("rag_query", [user_msg |-> user_msg, sim_th |-> sim_th],
                   rag_query(conversation, user_msg, sim_th, qr, reply), Asked(qr))

RagChat ==
    /\ phase = "ready"
    /\ \E user_msg \in UserMessages, reply \in GenerateReplies :
         \E qr \in QueryResults(HandleRecords, 2) :
             Apply("rag_chat", [user_msg |-> user_msg],
                   rag_chat(conversation, user_msg, qr, reply), Asked(qr))

LlmGenerate ==
    /\ phase = "ready"
    /\ \E prompt \in UserMessages, reply \in GenerateReplies :
             Apply("llm_generate", [prompt |-> prompt],
                   llm_generate(conversation, prompt, reply), NoQuery)

\* A collection made from a directory without documents.
EmptyCollectionStore ==
    make_collection(EmptyStore, "empty", COLLECTION_NAME, TRUE).store

----------------------------------------------------------------------------
(* The two retrievals alone, from a constructed RAGTools over the ingested
   documents or over an empty collection *)

InitRetrieve ==
    /\ InitReady
    /\ store \in {IngestedStore, EmptyCollectionStore}
    /\ before = Snapshot

NextRetrieve ==
    \/ RetrieveContentWMetaInfo(1..MaxNResults, SimThresholds)
    \/ GetRelevantText(1..MaxNResults, SimThresholds)

SpecRetrieve == InitRetrieve /\ [][NextRetrieve]_vars

----------------------------------------------------------------------------
(* Every operation of a constructed RAGTools but ingestion *)

\* The chat turns explored beside the retrieval operations.
MaxRagAppended == 2

\* The store after ingesting the directory "mixed".
MixedStore == make_collection(EmptyStore, "mixed", COLLECTION_NAME, TRUE).store

InitRag ==
    /\ InitReady
    /\ store \in {MixedStore, EmptyCollectionStore}
    /\ before = Snapshot

NextRag ==
    \/ RetrieveContentWMetaInfo({2}, {None, Float(400)})
    \/ GetRelevantText({2}, {None, Float(400)})
    \/ RagQuery
    \/ RagChat
    \/ LlmGenerate
    \/ chat(UserMessages, MaxRagAppended)

SpecRag == InitRag /\ [][NextRag]_vars

----------------------------------------------------------------------------
(* Properties of the conversation window (SpecChat) *)

Min(a, b) == IF a < b THEN a ELSE b

\* The last n entries of a sequence.
LastN(seq, n) == SubSeq(seq, Len(seq) - n + 1, Len(seq))

IsUserTurn(e) == e.py = "dict" /\ "role" \in e.keys /\ e.role = "user"

\* C1: after any sequence of chat calls the window holds at most 10 entries and
\* is the last min(k, 10) of the k entries appended so far, in their order.
C1_WindowIsLastTen ==
    /\ Len(conversation) <= 10
    /\ conversation = LastN(appended, Min(Len(appended), 10))

\* C1 witness: twelve entries were appended and the window holds ten of them.
C1_Witness ==
    /\ op = "chat"
    /\ Len(appended) = 12
    /\ Len(conversation) = 10

\* C10, as claimed: a chat call that raises leaves the window as it found it, and
\* the window never holds two consecutive user turns.
C10_FailedChatLeavesWindow ==
    /\ (op = "chat" /\ result.raised) => conversation = before.conversation
    /\ \A i \in 1..(Len(conversation) - 1) :
          ~(IsUserTurn(conversation[i]) /\ IsUserTurn(conversation[i + 1]))

----------------------------------------------------------------------------
(* Properties of ingestion and start-up (SpecIngest) *)

Range(seq) == { seq[i] : i \in 1..Len(seq) }

Records(st) == st[COLLECTION_NAME].records

\* C2: once make_collection with skipping has completed on a directory, running
\* it again on the same directory and collection adds no record (the records,
\* hence the size and the ids, are as before) and makes no add call for a file
\* the collection already names as a source.
C2_IngestionIdempotent ==
    (/\ op = "make_collection"
     /\ args.skip_included_files
     /\ <<args.data_path, args.collection_name>> \in before.completed)
    => /\ Records(store) = Records(before.store)
       /\ Ids(Records(store)) = Ids(Records(before.store))
       /\ \A a \in Range(adds) : a.metadata.source \notin Sources(Records(before.store))

\* C2 witness: a second run over the directory whose two files share a stem.
C2_Witness ==
    /\ op = "make_collection"
    /\ args.skip_included_files
    /\ args.data_path = "mixed"
    /\ <<args.data_path, args.collection_name>> \in before.completed
    /\ Len(Records(store)) >= 2

\* C5, as claimed: two chunks with different (filename, sequenceIndex) are never
\* given the same id, so no two add calls carry the same id.
C5_ChunkIdsUnique ==
    op = "make_collection" =>
    \A i, j \in 1..Len(adds) :
        (<<adds[i].metadata.source, adds[i].metadata.part>>
            # <<adds[j].metadata.source, adds[j].metadata.part>>)
        => adds[i].id # adds[j].id

\* The position of the last "." of a name (0 if it has none).
RECURSIVE LastDot(_, _)
LastDot(name, i) ==
    IF i = 0 THEN 0 ELSE IF name[i] = "." THEN i ELSE LastDot(name, i - 1)

\* stem(F): the name without its extension.
Stem(name) ==
    IF LastDot(name, Len(name)) = 0 THEN name
    ELSE SubSeq(name, 1, LastDot(name, Len(name)) - 1)

\* The k records the claim expects for a file: the i-th has id "id"+stem+"."+i,
\* document the i-th chunk, and metadata {source: F, part: i}.
RECURSIVE ExpectedOfFile(_, _)
ExpectedOfFile(file, i) ==
    IF i > Len(file.chunks) THEN << >>
    ELSE <<Record(file.chunks[i], <<"id">> \o Stem(file.name) \o <<".">> \o IntStr(i),
                  file.name, i)>>
         \o ExpectedOfFile(file, i + 1)

\* The same for every file of the listing, from file k on, that is not yet indexed.
RECURSIVE ExpectedOfFiles(_, _, _)
ExpectedOfFiles(files, k, indexed) ==
    IF k > Len(files) THEN << >>
    ELSE (IF files[k].name \in indexed THEN << >> ELSE ExpectedOfFile(files[k], 1))
         \o ExpectedOfFiles(files, k + 1, indexed)

\* C7, as claimed: ingesting a not-yet-indexed file that splits into k chunks adds
\* exactly its k records, in chunk order (none for a file without chunks).
C7_FileAddsItsChunks ==
    op = "make_collection"
    => Records(store) =
          Records(before.store)
          \o ExpectedOfFiles(list_files(args.data_path), 1,
                             Sources(Records(before.store)))

\* C8: constructing RAGTools ingests only if the document path exists and is
\* non-empty and the vector-store path did not exist or was empty; otherwise
\* the collection is opened with get_collection, and the store is left as it was.
C8_StartupPolicy ==
    op = "RAGTools" =>
        LET ingested == "make_collection" \in Range(calls)
        IN  /\ ingested => /\ PathExists(init_data)
                           /\ DirEntries(init_data) # << >>
                           /\ before.vdb \in {"absent", "empty"}
            /\ ~ingested => /\ calls[Len(calls)] = "get_collection"
                            /\ store = before.store
                            /\ adds = << >>

\* C8 witness: documents are present and so is a vector store from an earlier
\* run; the constructor opened its collection and ingested nothing.
C8_Witness ==
    /\ op = "RAGTools"
    /\ phase = "ready"
    /\ DirEntries(init_data) # << >>
    /\ before.vdb = "nonempty"
    /\ "get_collection" \in Range(calls)
    /\ Len(Records(store)) = 3

----------------------------------------------------------------------------
(* Properties of retrieval (SpecRetrieve) *)

Retrievals == {"retrieve_content_w_meta_info", "get_relevant_text"}

\* The passages are rows of the query result, kept in its nearest-first order.
InQueryOrder(passages) ==
    /\ \A i \in 1..Len(passages) :
          /\ passages[i].pos \in 1..Len(queried.rows)
          /\ passages[i].document = queried.rows[passages[i].pos].document
          /\ passages[i].distance = queried.rows[passages[i].pos].distance
          /\ passages[i].metadata = queried.rows[passages[i].pos].metadata
    /\ \A i \in 1..(Len(passages) - 1) :
          /\ passages[i].pos < passages[i + 1].pos
          /\ passages[i].distance <= passages[i + 1].distance

\* C4, as claimed: every passage either retrieval includes has
\* round(1 - distance, 2) >= t, and the passages are in nearest-first order.
\* (For the diagnostic retrieval the rounding is the one it computed; for the
\* context retrieval, any value the rounding can give.)
C4_RoundedSimilarityAtLeastThreshold ==
    (op \in Retrievals /\ args.sim_th.given) =>
        /\ InQueryOrder(result.rows)
        /\ \A p \in Range(result.rows) :
              IF op = "retrieve_content_w_meta_info"
              THEN p.similarity >= args.sim_th.value
              ELSE \E r \in Round2(1000 - p.distance) : r >= args.sim_th.value

\* C4, amended: a passage of the diagnostic retrieval has round(1 - distance, 2)
\* >= t; a passage of the context retrieval has 1 - distance >= t, unrounded;
\* both keep the nearest-first order of the query result.
C4_SimilarityAtLeastThreshold ==
    (op \in Retrievals /\ args.sim_th.given) =>
        /\ InQueryOrder(result.rows)
        /\ \A p \in Range(result.rows) :
              IF op = "retrieve_content_w_meta_info"
              THEN /\ p.similarity \in Round2(1000 - p.distance)
                   /\ p.similarity >= args.sim_th.value
              ELSE 1000 - p.distance >= args.sim_th.value

\* C4 witness: the context retrieval, threshold 0.401, kept a row at distance
\* 0.596 (similarity 0.404, which rounds to 0.40) and dropped another row.
C4_Witness ==
    /\ op = "get_relevant_text"
    /\ args.sim_th = Float(401)
    /\ Len(queried.rows) = 2
    /\ Len(result.rows) = 1
    /\ result.rows[1].distance = 596

----------------------------------------------------------------------------
(* Properties of the LLM paths (SpecRag) *)

\* C3: in rag_query, when no retrieved row has similarity at or above sim_th,
\* the call returns the fixed sentinel and llm_generate is not invoked: no
\* request goes to the LLM service.
C3_EmptyRetrievalGivesSentinel ==
    (/\ op = "rag_query"
     /\ \A i \in 1..Len(queried.rows) :
           1000 - queried.rows[i].distance < args.sim_th.value)
    => /\ result = Returned(NotFoundQuery)
       /\ sent = << >>
       /\ "llm_generate" \notin Range(calls)

\* C3 witness: two rows came back, the best at similarity 0.404, under the
\* threshold 0.9, and rag_query answered with the sentinel.
C3_Witness ==
    /\ op = "rag_query"
    /\ args.sim_th = Float(900)
    /\ Len(queried.rows) = 2
    /\ queried.rows[1].distance = 596
    /\ result.value = NotFoundQuery

\* C6, as claimed: when the service answers with a JSON object that lacks the
\* expected field (`response` for llm_generate, `message` for llm_chat), the
\* operation returns the empty string and raises nothing.
C6_MissingFieldGivesEmptyString ==
    /\ (/\ op = "llm_generate"
        /\ sent[1].reply.kind = "json"
        /\ "response" \notin sent[1].reply.keys)
       => result = Returned(<< >>)
    /\ (/\ op = "chat"
        /\ sent[1].reply.kind = "json"
        /\ "message" \notin sent[1].reply.keys)
       => result = Returned(<< >>)

RagPaths ==
    {"rag_query", "rag_chat", "llm_generate",
     "retrieve_content_w_meta_info", "get_relevant_text"}

\* What the last operation would have sent had the window been empty, the store
\* and the service answering as they did.
SentFromEmptyWindow ==
    CASE op = "rag_query" ->
           rag_query(<< >>, args.user_msg, args.sim_th, queried.rows,
                     sent[1].reply).sent
      [] op = "rag_chat" ->
           rag_chat(<< >>, args.user_msg, queried.rows, sent[1].reply).sent
      [] op = "llm_generate" ->
           llm_generate(<< >>, args.prompt, sent[1].reply).sent
      [] OTHER -> << >>

\* C9: rag_query, rag_chat, llm_generate, retrieve_content_w_meta_info and
\* get_relevant_text, returning or raising, leave the conversation window as it
\* was, and what they send to the LLM is what they would send from an empty
\* window.
C9_RagPathsLeaveWindow ==
    op \in RagPaths =>
        /\ conversation = before.conversation
        /\ Len(sent) <= 1
        /\ sent # << >> => sent = SentFromEmptyWindow

\* C9 witness: with two turns in the window, rag_chat sent a prompt to the LLM.
C9_Witness ==
    /\ op = "rag_chat"
    /\ Len(conversation) = 2
    /\ sent # << >>

====
